---------------------------- MODULE Spec2Model ----------------------------
(***************************************************************************)
(* State-machine model of LightWeightMQTTExample.c: the demo task that     *)
(* connects to an MQTT broker, subscribes with backoff retries, publishes  *)
(* and pings, unsubscribes, disconnects, shuts the socket down and loops.  *)
(*                                                                         *)
(* configASSERT is modelled as a halt: the task moves to pc = "fatal" and  *)
(* fatalLine records the source line of the assertion that failed; the     *)
(* assignments made before that line are kept.                             *)
(*                                                                         *)
(* The transport, the MQTT serializer and the retry utility are outside    *)
(* the file.  What they return is an input of the action that calls them   *)
(* (drawn with \E from the sets below); where the file documents a result  *)
(* the operator modelling the library follows that documentation.          *)
(***************************************************************************)
EXTENDS Integers, Sequences, FiniteSets

(***************************************************************************)
(* Program constants.                                                      *)
(***************************************************************************)
mqttexampleTOPIC_COUNT == 1

mqttexampleSHARED_BUFFER_SIZE == 500

mqttexampleMAX_SOCKET_SHUTDOWN_LOOPS == 3

ulMaxPublishCount == 5

\* Width of uint16_t: the largest packet identifier.
UINT16_MAX == 65535

\* retry_utils.h; the value of the specification's example.
MAX_RETRY_ATTEMPTS == 3

\* mqtt_lightweight.h: first byte of the fixed header of the incoming packets.
MQTT_PACKET_TYPE_CONNACK == 32

MQTT_PACKET_TYPE_PUBLISH == 48

MQTT_PACKET_TYPE_PUBACK == 64

MQTT_PACKET_TYPE_SUBACK == 144

MQTT_PACKET_TYPE_UNSUBACK == 176

MQTT_PACKET_TYPE_PINGRESP == 208

(***************************************************************************)
(* Bounds of the model.                                                    *)
(***************************************************************************)
\* Session iterations of the for( ; ; ) loop that are explored.
MaxIterations == 2

\* SUBSCRIBE packets sent on one connection that are explored.
MaxSubscribeSends == 4

\* Largest Topic Filter Context of the subscription-tracker harness.
MaxTopicCount == 3

(***************************************************************************)
(* Bytes and identifiers.                                                  *)
(***************************************************************************)
\* SUBACK status bytes the broker may send: granted QoS 0, granted QoS 1, rejected.
StatusBytes == {0, 1, 128}

\* ( byte & 0x80 ) != 0
TopBitSet(byte) == (byte \div 128) % 2 = 1

\* ( type & 0xf0 )
HighNibble_WholeByte(type) == type

HighNibble(type) == (type \div 16) * 16

\* The identifiers returned by prvGetNextPacketIdentifier.
prvGetNextPacketIdentifier_NoSkip(usPacketId) == (usPacketId + 1) % (UINT16_MAX + 1)

prvGetNextPacketIdentifier(usPacketId) ==
    LET incremented == (usPacketId + 1) % (UINT16_MAX + 1)
    IN  IF incremented = 0 THEN 1 ELSE incremented


(***************************************************************************)
(* What the libraries return.                                              *)
(***************************************************************************)
FREERTOS_INVALID_SOCKET == "invalid"

\* What one call of prvCreateTCPConnectionToBroker can meet in the transport.
ConnectOutcomes == {"noSocket", "noAddress", "noConnect", "connected"}

\* What FreeRTOS_send can return: the whole packet, fewer bytes, an error.
SendResults == {"all", "short", "error"}

\* Encoded sizes the MQTT_Get...PacketSize functions may report: a small packet
\* and the sizes around the capacity of the shared buffer.
PacketSizes ==
    {2, mqttexampleSHARED_BUFFER_SIZE - 1, mqttexampleSHARED_BUFFER_SIZE,
     mqttexampleSHARED_BUFFER_SIZE + 1}

\* An incoming packet as the task meets it: hdr is the status of
\* MQTT_GetIncomingPacketTypeAndLength, type and remainingLength what it
\* stores, recvd what FreeRTOS_recv returns for the body, ok whether the
\* deserializer accepts the body, id the packet identifier in the body,
\* statuses the SUBACK status bytes and rc the CONNACK return code.
Pkt(h, t, rl, rv, ok, id, st, rc) ==
    [hdr |-> h, type |-> t, remainingLength |-> rl, recvd |-> rv, ok |-> ok,
     id |-> id, statuses |-> st, rc |-> rc]

NoPacket == Pkt("none", 0, 0, 0, FALSE, 0, <<>>, 0)

NoData == Pkt("MQTTNoDataAvailable", 0, 0, 0, FALSE, 0, <<>>, 0)

BodyReads(rl) == {rl, -1} \cup (IF rl > 0 THEN {rl - 1} ELSE {})

\* Status bytes of a SUBACK: none, or one per subscribed topic filter.
StatusLists == {<<>>} \cup [1..mqttexampleTOPIC_COUNT -> StatusBytes]

\* Every packet the broker may deliver, with identifiers drawn from ids.
Packets(ids) ==
    {NoData}
    \cup {Pkt(h, 0, 0, 0, FALSE, 0, <<>>, 0) : h \in {"MQTTRecvFailed", "MQTTBadResponse"}}
    \cup {Pkt("MQTTSuccess", t, mqttexampleSHARED_BUFFER_SIZE + 1, 0, TRUE, 0, <<>>, 0) :
            t \in {MQTT_PACKET_TYPE_CONNACK, MQTT_PACKET_TYPE_PUBLISH,
                   MQTT_PACKET_TYPE_SUBACK}}
    \cup {Pkt("MQTTSuccess", MQTT_PACKET_TYPE_CONNACK, 2, rv, ok, 0, <<>>, rc) :
            rv \in BodyReads(2), ok \in BOOLEAN, rc \in {0, 5}}
    \cup {Pkt("MQTTSuccess", MQTT_PACKET_TYPE_PUBLISH, mqttexampleSHARED_BUFFER_SIZE, rv,
               TRUE, 0, <<>>, 0) : rv \in {mqttexampleSHARED_BUFFER_SIZE, -1}}
    \cup {Pkt("MQTTSuccess", t, 40, rv, ok, id, <<>>, 0) :
            t \in {MQTT_PACKET_TYPE_PUBLISH, MQTT_PACKET_TYPE_PUBLISH + 1},
            rv \in BodyReads(40), ok \in BOOLEAN, id \in ids}
    \cup UNION {{Pkt("MQTTSuccess", MQTT_PACKET_TYPE_SUBACK, 2 + Len(st), rv, ok, id, st, 0) :
                    rv \in BodyReads(2 + Len(st)), ok \in BOOLEAN, id \in ids} :
                st \in StatusLists}
    \cup {Pkt("MQTTSuccess", t, 2, rv, ok, id, <<>>, 0) :
            t \in {MQTT_PACKET_TYPE_UNSUBACK, MQTT_PACKET_TYPE_PUBACK},
            rv \in BodyReads(2), ok \in BOOLEAN, id \in ids}
    \cup {Pkt("MQTTSuccess", MQTT_PACKET_TYPE_PINGRESP, 0, 0, ok, 0, <<>>, 0) :
            ok \in BOOLEAN}

\* MQTT_DeserializePublish: succeeds on a body the deserializer accepts.
MQTT_DeserializePublish(in) == IF in.ok THEN "MQTTSuccess" ELSE "MQTTBadResponse"

\* MQTT_DeserializeAck: a malformed body and the reserved identifier 0 are bad
\* responses; a CONNACK with a non-zero return code and a SUBACK carrying a
\* rejection status are reported as MQTTServerRefused.
MQTT_DeserializeAck(in) ==
    IF ~in.ok THEN "MQTTBadResponse"
    ELSE IF in.type \in {MQTT_PACKET_TYPE_SUBACK, MQTT_PACKET_TYPE_UNSUBACK,
                         MQTT_PACKET_TYPE_PUBACK} /\ in.id = 0
         THEN "MQTTBadResponse"
    ELSE IF in.type = MQTT_PACKET_TYPE_CONNACK /\ in.rc # 0 THEN "MQTTServerRefused"
    ELSE IF in.type = MQTT_PACKET_TYPE_SUBACK
            /\ \E i \in 1..Len(in.statuses) : TopBitSet(in.statuses[i])
         THEN "MQTTServerRefused"
    ELSE "MQTTSuccess"

\* RetryUtils_BackoffAndSleep on a retry state that has counted attemptsDone
\* attempts: counts one more and signals exhaustion once the cap is reached.
RetryUtils_BackoffAndSleep(attemptsDone, maxRetryAttempts) ==
    [attemptsDone |-> attemptsDone + 1,
     status |-> IF attemptsDone + 1 >= maxRetryAttempts
                THEN "RetryUtilsRetriesExhausted" ELSE "RetryUtilsSuccess"]

(***************************************************************************)
(* The subscription tracker and the dispatcher, as functions of the packet *)
(* and of the state they read.  A result's line is the source line of the  *)
(* configASSERT that failed, or 0 when none did.                           *)
(***************************************************************************)
\* prvMQTTUpdateSubAckStatus, the loop: pucPayload holds the bytes of the
\* shared buffer that follow the packet identifier (1-indexed here), ulSize is
\* remainingLength - 2.  Entry ulTopicCount is set from pucPayload[ ulTopicCount * 2 ].
prvMQTTUpdateSubAckStatus_Inverted(ctx, pucPayload, ulSize) ==
    [i \in 1..Len(ctx) |->
        IF i - 1 < ulSize
        THEN (IF TopBitSet(pucPayload[(i - 1) * 2 + 1]) THEN TRUE ELSE FALSE)
        ELSE ctx[i]]

prvMQTTUpdateSubAckStatus(ctx, pucPayload, ulSize) ==
    [i \in 1..Len(ctx) |->
        IF i - 1 < ulSize
        THEN (IF TopBitSet(pucPayload[(i - 1) * 2 + 1]) THEN FALSE ELSE TRUE)
        ELSE ctx[i]]

\* prvMQTTUpdateSubAckStatus, the loop: the indices of xTopicFilterContext it
\* writes and the offsets of pucPayload it reads (0-indexed, as in the code).
\* A write at an index that xTopicFilterContext does not have lands in the
\* memory behind the array; the model records it and changes nothing else.
TopicFilterContextWritten(ulSize) == {ulTopicCount : ulTopicCount \in 0..(ulSize - 1)}

PayloadRead(ulSize) == {ulTopicCount * 2 : ulTopicCount \in 0..(ulSize - 1)}

\* prvMQTTUpdateSubAckStatus, the assertions on its argument.
SubAckStatusAssert(in) ==
    IF in.type # MQTT_PACKET_TYPE_SUBACK THEN 874
    ELSE IF in.remainingLength = 0 THEN 875
    ELSE IF ~(in.remainingLength >= 3) THEN 876
    ELSE 0

\* prvMQTTProcessResponse: the identifier checks.
prvMQTTProcessResponse_NoCheck(in, usPacketId, subId, unsubId) == 0

prvMQTTProcessResponse_PingChecked(in, usPacketId, subId, unsubId) ==
    IF in.type = MQTT_PACKET_TYPE_SUBACK
    THEN (IF subId = usPacketId THEN 0 ELSE 1070)
    ELSE IF in.type \in {MQTT_PACKET_TYPE_UNSUBACK, MQTT_PACKET_TYPE_PINGRESP}
    THEN (IF unsubId = usPacketId THEN 0 ELSE 1076)
    ELSE 0

prvMQTTProcessResponse(in, usPacketId, subId, unsubId) ==
    IF in.type = MQTT_PACKET_TYPE_SUBACK
    THEN (IF subId = usPacketId THEN 0 ELSE 1070)
    ELSE IF in.type = MQTT_PACKET_TYPE_UNSUBACK
    THEN (IF unsubId = usPacketId THEN 0 ELSE 1076)
    ELSE 0

\* prvMQTTProcessIncomingPacket on packet in: the failed assertion, the Topic
\* Filter Context it leaves, whether the body was read from the transport and
\* how far the packet got: "returned" (no data), "header" (halted before the
\* classification), "publish" (prvMQTTProcessIncomingPublish), "ack" (halted
\* after MQTT_DeserializeAck) or "response" (prvMQTTProcessResponse).
DispatchResult(line, ctx, bodyRead, route) ==
    [line |-> line, ctx |-> ctx, bodyRead |-> bodyRead, route |-> route]

prvMQTTProcessIncomingPacket_NoDataAsserted(in, ctx, subId, unsubId) ==
    IF in.hdr # "MQTTSuccess" THEN DispatchResult(1147, ctx, FALSE, "header")
    ELSE IF ~(in.remainingLength <= mqttexampleSHARED_BUFFER_SIZE)
         THEN DispatchResult(1148, ctx, FALSE, "header")
    ELSE IF in.remainingLength > 0 /\ in.recvd # in.remainingLength
         THEN DispatchResult(1160, ctx, TRUE, "header")
    ELSE LET bodyRead == in.remainingLength > 0 IN
         IF HighNibble(in.type) = MQTT_PACKET_TYPE_PUBLISH
         THEN (IF MQTT_DeserializePublish(in) # "MQTTSuccess"
               THEN DispatchResult(1168, ctx, bodyRead, "publish")
               ELSE DispatchResult(0, ctx, bodyRead, "publish"))
         ELSE LET xResult == MQTT_DeserializeAck(in) IN
              IF xResult # "MQTTSuccess" THEN DispatchResult(1181, ctx, bodyRead, "ack")
              ELSE IF in.type = MQTT_PACKET_TYPE_SUBACK
              THEN (IF SubAckStatusAssert(in) # 0
                    THEN DispatchResult(SubAckStatusAssert(in), ctx, bodyRead, "ack")
                    ELSE LET updated == prvMQTTUpdateSubAckStatus(
                                            ctx, in.statuses, in.remainingLength - 2)
                         IN  DispatchResult(
                                 prvMQTTProcessResponse(in, in.id, subId, unsubId),
                                 updated, bodyRead, "response"))
              ELSE DispatchResult(prvMQTTProcessResponse(in, in.id, subId, unsubId),
                                  ctx, bodyRead, "response")

prvMQTTProcessIncomingPacket_NoLengthCheck(in, ctx, subId, unsubId) ==
    IF in.hdr = "MQTTNoDataAvailable" THEN DispatchResult(0, ctx, FALSE, "returned")
    ELSE IF in.hdr # "MQTTSuccess" THEN DispatchResult(1147, ctx, FALSE, "header")
    ELSE IF in.remainingLength > 0 /\ in.recvd # in.remainingLength
         THEN DispatchResult(1160, ctx, TRUE, "header")
    ELSE LET bodyRead == in.remainingLength > 0 IN
         IF HighNibble(in.type) = MQTT_PACKET_TYPE_PUBLISH
         THEN (IF MQTT_DeserializePublish(in) # "MQTTSuccess"
               THEN DispatchResult(1168, ctx, bodyRead, "publish")
               ELSE DispatchResult(0, ctx, bodyRead, "publish"))
         ELSE LET xResult == MQTT_DeserializeAck(in) IN
              IF xResult # "MQTTSuccess" THEN DispatchResult(1181, ctx, bodyRead, "ack")
              ELSE IF in.type = MQTT_PACKET_TYPE_SUBACK
              THEN (IF SubAckStatusAssert(in) # 0
                    THEN DispatchResult(SubAckStatusAssert(in), ctx, bodyRead, "ack")
                    ELSE LET updated == prvMQTTUpdateSubAckStatus(
                                            ctx, in.statuses, in.remainingLength - 2)
                         IN  DispatchResult(
                                 prvMQTTProcessResponse(in, in.id, subId, unsubId),
                                 updated, bodyRead, "response"))
              ELSE DispatchResult(prvMQTTProcessResponse(in, in.id, subId, unsubId),
                                  ctx, bodyRead, "response")

prvMQTTProcessIncomingPacket_CheckFirst(in, ctx, subId, unsubId) ==
    IF in.hdr = "MQTTNoDataAvailable" THEN DispatchResult(0, ctx, FALSE, "returned")
    ELSE IF in.hdr # "MQTTSuccess" THEN DispatchResult(1147, ctx, FALSE, "header")
    ELSE IF ~(in.remainingLength <= mqttexampleSHARED_BUFFER_SIZE)
         THEN DispatchResult(1148, ctx, FALSE, "header")
    ELSE IF in.remainingLength > 0 /\ in.recvd # in.remainingLength
         THEN DispatchResult(1160, ctx, TRUE, "header")
    ELSE LET bodyRead == in.remainingLength > 0 IN
         IF HighNibble(in.type) = MQTT_PACKET_TYPE_PUBLISH
         THEN (IF MQTT_DeserializePublish(in) # "MQTTSuccess"
               THEN DispatchResult(1168, ctx, bodyRead, "publish")
               ELSE DispatchResult(0, ctx, bodyRead, "publish"))
         ELSE LET xResult == MQTT_DeserializeAck(in) IN
              IF xResult # "MQTTSuccess" THEN DispatchResult(1181, ctx, bodyRead, "ack")
              ELSE IF in.type = MQTT_PACKET_TYPE_SUBACK
              THEN (IF SubAckStatusAssert(in) # 0
                    THEN DispatchResult(SubAckStatusAssert(in), ctx, bodyRead, "ack")
                    ELSE LET updated == prvMQTTUpdateSubAckStatus(
                                            ctx, in.statuses, in.remainingLength - 2)
                             line == prvMQTTProcessResponse(in, in.id, subId, unsubId)
                         IN  DispatchResult(line, IF line = 0 THEN updated ELSE ctx,
                                            bodyRead, "response"))
              ELSE DispatchResult(prvMQTTProcessResponse(in, in.id, subId, unsubId),
                                  ctx, bodyRead, "response")

prvMQTTProcessIncomingPacket_ShortReadIgnored(in, ctx, subId, unsubId) ==
    IF in.hdr = "MQTTNoDataAvailable" THEN DispatchResult(0, ctx, FALSE, "returned")
    ELSE IF in.hdr # "MQTTSuccess" THEN DispatchResult(1147, ctx, FALSE, "header")
    ELSE IF ~(in.remainingLength <= mqttexampleSHARED_BUFFER_SIZE)
         THEN DispatchResult(1148, ctx, FALSE, "header")
    ELSE LET bodyRead == in.remainingLength > 0 IN
         IF HighNibble(in.type) = MQTT_PACKET_TYPE_PUBLISH
         THEN (IF MQTT_DeserializePublish(in) # "MQTTSuccess"
               THEN DispatchResult(1168, ctx, bodyRead, "publish")
               ELSE DispatchResult(0, ctx, bodyRead, "publish"))
         ELSE LET xResult == MQTT_DeserializeAck(in) IN
              IF xResult # "MQTTSuccess" THEN DispatchResult(1181, ctx, bodyRead, "ack")
              ELSE IF in.type = MQTT_PACKET_TYPE_SUBACK
              THEN (IF SubAckStatusAssert(in) # 0
                    THEN DispatchResult(SubAckStatusAssert(in), ctx, bodyRead, "ack")
                    ELSE LET updated == prvMQTTUpdateSubAckStatus(
                                            ctx, in.statuses, in.remainingLength - 2)
                         IN  DispatchResult(
                                 prvMQTTProcessResponse(in, in.id, subId, unsubId),
                                 updated, bodyRead, "response"))
              ELSE DispatchResult(prvMQTTProcessResponse(in, in.id, subId, unsubId),
                                  ctx, bodyRead, "response")

prvMQTTProcessIncomingPacket(in, ctx, subId, unsubId) ==
    IF in.hdr = "MQTTNoDataAvailable" THEN DispatchResult(0, ctx, FALSE, "returned")
    ELSE IF in.hdr # "MQTTSuccess" THEN DispatchResult(1147, ctx, FALSE, "header")
    ELSE IF ~(in.remainingLength <= mqttexampleSHARED_BUFFER_SIZE)
         THEN DispatchResult(1148, ctx, FALSE, "header")
    ELSE IF in.remainingLength > 0 /\ in.recvd # in.remainingLength
         THEN DispatchResult(1160, ctx, TRUE, "header")
    ELSE LET bodyRead == in.remainingLength > 0 IN
         IF HighNibble(in.type) = MQTT_PACKET_TYPE_PUBLISH
         THEN (IF MQTT_DeserializePublish(in) # "MQTTSuccess"
               THEN DispatchResult(1168, ctx, bodyRead, "publish")
               ELSE DispatchResult(0, ctx, bodyRead, "publish"))
         ELSE LET xResult == MQTT_DeserializeAck(in) IN
              IF xResult # "MQTTSuccess" THEN DispatchResult(1181, ctx, bodyRead, "ack")
              ELSE IF in.type = MQTT_PACKET_TYPE_SUBACK
              THEN (IF SubAckStatusAssert(in) # 0
                    THEN DispatchResult(SubAckStatusAssert(in), ctx, bodyRead, "ack")
                    ELSE LET updated == prvMQTTUpdateSubAckStatus(
                                            ctx, in.statuses, in.remainingLength - 2)
                         IN  DispatchResult(
                                 prvMQTTProcessResponse(in, in.id, subId, unsubId),
                                 updated, bodyRead, "response"))
              ELSE DispatchResult(prvMQTTProcessResponse(in, in.id, subId, unsubId),
                                  ctx, bodyRead, "response")

\* prvCreateMQTTConnectionWithBroker: the first assertion that fails when the
\* CONNECT packet has encoded size xPacketSize, FreeRTOS_send returns sendResult
\* and the response read is packet in.
prvCreateMQTTConnectionWithBroker_AnyType(xPacketSize, sendResult, in) ==
    IF ~(xPacketSize < mqttexampleSHARED_BUFFER_SIZE) THEN 702
    ELSE IF sendResult # "all" THEN 715
    ELSE IF in.hdr # "MQTTSuccess" THEN 732
    ELSE IF ~(in.remainingLength <= mqttexampleSHARED_BUFFER_SIZE) THEN 734
    ELSE IF in.recvd # in.remainingLength THEN 741
    ELSE IF MQTT_DeserializeAck(in) # "MQTTSuccess" THEN 747
    ELSE 0

prvCreateMQTTConnectionWithBroker(xPacketSize, sendResult, in) ==
    IF ~(xPacketSize < mqttexampleSHARED_BUFFER_SIZE) THEN 702
    ELSE IF sendResult # "all" THEN 715
    ELSE IF in.hdr # "MQTTSuccess" THEN 732
    ELSE IF in.type # MQTT_PACKET_TYPE_CONNACK THEN 733
    ELSE IF ~(in.remainingLength <= mqttexampleSHARED_BUFFER_SIZE) THEN 734
    ELSE IF in.recvd # in.remainingLength THEN 741
    ELSE IF MQTT_DeserializeAck(in) # "MQTTSuccess" THEN 747
    ELSE 0

\* prvCreateTCPConnectionToBroker.
prvCreateTCPConnectionToBroker_Leaks(outcome) ==
    [xMQTTSocket |-> IF outcome = "connected" THEN "socket" ELSE FREERTOS_INVALID_SOCKET,
     created |-> outcome # "noSocket",
     closed |-> FALSE]

\* prvCreateTCPConnectionToBroker: the socket returned, and whether a socket
\* was created on the way (it is closed again when the connection failed).
prvCreateTCPConnectionToBroker(outcome) ==
    [xMQTTSocket |-> IF outcome = "connected" THEN "socket" ELSE FREERTOS_INVALID_SOCKET,
     created |-> outcome # "noSocket",
     closed |-> outcome \in {"noAddress", "noConnect"}]

(***************************************************************************)
(* State.                                                                  *)
(***************************************************************************)
VARIABLES
    pc,                             \* where prvMQTTDemoTask stands
    fatalLine,                      \* line of the configASSERT that failed, or 0
    tcp,                            \* the socket: "closed", "connected", "shutdown"
    ulPublishCount,                 \* prvMQTTDemoTask
    xTopicFilterContext,            \* the xSubAckSuccess flags, 1-indexed
    usPacketId,                     \* static of prvGetNextPacketIdentifier
    usSubscribePacketIdentifier,
    usUnsubscribePacketIdentifier,
    attemptsDone,                   \* attempts counted by the episode's retry state
    xRetryUtilsStatus,              \* local of the running retry episode
    xFailedSubscribeToTopic,        \* local of prvMQTTSubscribeWithBackoffRetries
    xShutdownLoopCount,             \* local of prvGracefulShutDown
    broker,                         \* "wellBehaved" or "arbitrary": the environment
    sent,                           \* packets sent on this connection, in order
    xIncomingPacket,                \* packet the dispatcher consumed in the last step
    iteration,                      \* session iterations completed
    connectAttempts,                \* prvCreateTCPConnectionToBroker calls of the episode
    subAckLog,                      \* what each dispatch of the subscribe episode consumed
    allocCalled,                    \* prvGetNextPacketIdentifier has been called
    connackOK,                      \* a successful CONNACK was read on this connection
    lastSubscribeSent,              \* identifier of the SUBSCRIBE sent last, 0 if none
    lastUnsubscribeSent,            \* identifier of the UNSUBSCRIBE sent last, 0 if none
    firstSession,                   \* the session state at the first iteration's start
    trk,                            \* argument of the subscription-tracker harness
    xDispatch,                      \* how the packet read in the last step was handled
    xOutbound,                      \* the packet the last step set out to send
    xShutdown,                      \* FreeRTOS_recv polls and closes of prvGracefulShutDown
    pending,                        \* replies a "delayed" broker has sent that were not read yet
    openSockets                     \* sockets created and not yet closed

vars ==
    <<pc, fatalLine, tcp, ulPublishCount, xTopicFilterContext, usPacketId,
      usSubscribePacketIdentifier, usUnsubscribePacketIdentifier, attemptsDone,
      xRetryUtilsStatus, xFailedSubscribeToTopic, xShutdownLoopCount, broker, sent,
      xIncomingPacket, iteration, connectAttempts, subAckLog, allocCalled, connackOK,
      lastSubscribeSent, lastUnsubscribeSent, firstSession, trk, xDispatch, xOutbound,
      xShutdown, pending, openSockets>>

idVars ==
    <<usPacketId, usSubscribePacketIdentifier, usUnsubscribePacketIdentifier, allocCalled,
      lastSubscribeSent, lastUnsubscribeSent>>

retryVars == <<attemptsDone, xRetryUtilsStatus, xFailedSubscribeToTopic, connectAttempts>>

envVars == <<broker, firstSession, trk, iteration>>

\* What the last step did with the packet it read: the assertion that failed
\* (or 0), whether the body was read from the transport, and the route taken.
Handled(line, bodyRead, route) == [line |-> line, bodyRead |-> bodyRead, route |-> route]

NoDispatch == Handled(0, FALSE, "none")

\* The packet the last step set out to send: its type, the encoded size the
\* MQTT_Get...PacketSize function reported, whether it was serialized into the
\* shared buffer and whether FreeRTOS_send took all of it.
Outbound(type, size, serialized, wasSent) ==
    [type |-> type, size |-> size, serialized |-> serialized, sent |-> wasSent]

NoOutbound == Outbound("none", 0, FALSE, FALSE)

NoShutdown == [polls |-> 0, closes |-> 0]

\* The session state the iterations are compared on.
SessionState ==
    [flags |-> xTopicFilterContext,
     subscribeId |-> usSubscribePacketIdentifier,
     unsubscribeId |-> usUnsubscribePacketIdentifier,
     attemptsDone |-> attemptsDone,
     retryStatus |-> xRetryUtilsStatus,
     failedSubscribe |-> xFailedSubscribeToTopic,
     tcp |-> tcp]

AllFlags(b) == [i \in 1..mqttexampleTOPIC_COUNT |-> b]

\* The counter at process start, and at the start of the iteration in which it
\* wraps (reached after 32767 iterations that each issue two identifiers).
StartPacketIds == {0, UINT16_MAX - 1}

Init ==
    /\ pc = "connectEntry"
    /\ fatalLine = 0
    /\ tcp = "closed"
    /\ ulPublishCount = 0
    /\ xTopicFilterContext = AllFlags(FALSE)
    /\ usPacketId \in StartPacketIds
    /\ usSubscribePacketIdentifier = (IF usPacketId = 0 THEN 0 ELSE usPacketId - 1)
    /\ usUnsubscribePacketIdentifier = usPacketId
    /\ allocCalled = (usPacketId # 0)
    /\ attemptsDone = 0
    /\ xRetryUtilsStatus = "RetryUtilsSuccess"
    /\ xFailedSubscribeToTopic = FALSE
    /\ xShutdownLoopCount = 0
    /\ broker \in {"wellBehaved", "arbitrary", "delayed"}
    /\ sent = <<>>
    /\ xIncomingPacket = NoPacket
    /\ iteration = 0
    /\ connectAttempts = 0
    /\ subAckLog = <<>>
    /\ connackOK = FALSE
    /\ lastSubscribeSent = usSubscribePacketIdentifier
    /\ lastUnsubscribeSent = usUnsubscribePacketIdentifier
    /\ firstSession = SessionState
    /\ trk = [pucPayload |-> <<>>, ulSize |-> 0, done |-> FALSE, writes |-> {}, reads |-> {}]
    /\ xDispatch = NoDispatch
    /\ xOutbound = NoOutbound
    /\ xShutdown = NoShutdown
    /\ pending = <<>>
    /\ openSockets = 0

(***************************************************************************)
(* The environment: a well-behaved broker and transport give each call its *)
(* expected result, an arbitrary one any result.  A delayed broker answers *)
(* every request with the expected reply, in order, but a reply may not    *)
(* have arrived yet when the task looks for it (the header read then       *)
(* reports MQTTNoDataAvailable), and a PUBLISH on the subscribed topic may *)
(* arrive at any time.                                                     *)
(***************************************************************************)
Outcomes == IF broker = "arbitrary" THEN ConnectOutcomes ELSE {"connected"}

Sizes == IF broker = "arbitrary" THEN PacketSizes ELSE {2}

Sends == IF broker = "arbitrary" THEN SendResults ELSE {"all"}

ConnAck == Pkt("MQTTSuccess", MQTT_PACKET_TYPE_CONNACK, 2, 2, TRUE, 0, <<>>, 0)

SubAck(id, statuses) ==
    Pkt("MQTTSuccess", MQTT_PACKET_TYPE_SUBACK, 2 + Len(statuses), 2 + Len(statuses),
        TRUE, id, statuses, 0)

PublishEcho == Pkt("MQTTSuccess", MQTT_PACKET_TYPE_PUBLISH, 40, 40, TRUE, 0, <<>>, 0)

PingResp == Pkt("MQTTSuccess", MQTT_PACKET_TYPE_PINGRESP, 0, 0, TRUE, 0, <<>>, 0)

UnsubAck(id) == Pkt("MQTTSuccess", MQTT_PACKET_TYPE_UNSUBACK, 2, 2, TRUE, id, <<>>, 0)

\* The reply a well-behaved broker has ready at each read.
Expected ==
    CASE pc = "mqttConnect" -> ConnAck
      [] pc = "subProcess" ->
            SubAck(usSubscribePacketIdentifier, [i \in 1..mqttexampleTOPIC_COUNT |-> 0])
      [] pc = "pubProcess" -> PublishEcho
      [] pc = "pingProcess" -> PingResp
      [] pc = "unsubProcess" -> UnsubAck(usUnsubscribePacketIdentifier)
      [] OTHER -> NoData

Incoming ==
    IF broker = "wellBehaved" THEN {Expected}
    ELSE IF broker = "delayed"
    THEN (IF pc = "mqttConnect" THEN {ConnAck}
          ELSE {NoData, PublishEcho}
               \cup (IF pending # <<>> THEN {Head(pending)} ELSE {}))
    ELSE Packets({0, usSubscribePacketIdentifier, usUnsubscribePacketIdentifier,
                  prvGetNextPacketIdentifier(usPacketId)})

\* The replies in flight once a delayed broker has received a request that it
\* answers with packet reply, and once the task has read packet in.
Replied(reply) == IF broker = "delayed" THEN Append(pending, reply) ELSE pending

Delivered(in) ==
    IF broker = "delayed" /\ pending # <<>> /\ in = Head(pending)
    THEN Tail(pending) ELSE pending

\* Continue at next, or halt at the assertion that failed.
Goto(line, next) ==
    /\ pc' = (IF line = 0 THEN next ELSE "fatal")
    /\ fatalLine' = line

Sent(type, id) == Append(sent, [type |-> type, id |-> id])

CountSent(type) == Cardinality({i \in 1..Len(sent) : sent[i].type = type})

(***************************************************************************)
(* Connection with backoff retries.                                        *)
(***************************************************************************)
\* prvConnectToServerWithBackoffRetries, up to its loop: a new iteration of
\* the task begins and the retry state of the episode is reset.
ConnectRetryBegin ==
    /\ pc = "connectEntry"
    /\ iteration < MaxIterations
    /\ attemptsDone' = 0
    /\ xRetryUtilsStatus' = "RetryUtilsSuccess"
    /\ connectAttempts' = 0
    /\ sent' = <<>>
    /\ subAckLog' = <<>>
    /\ connackOK' = FALSE
    /\ xIncomingPacket' = NoPacket
    /\ xDispatch' = NoDispatch
    /\ xOutbound' = NoOutbound
    /\ xShutdown' = NoShutdown
    /\ Goto(0, "connect")
    /\ pending' = <<>>
    /\ UNCHANGED <<tcp, ulPublishCount, xTopicFilterContext, idVars,
                   xFailedSubscribeToTopic, xShutdownLoopCount, envVars,
                   openSockets>>

\* The condition of the do-while loop of prvConnectToServerWithBackoffRetries.
ConnectLoopContinues_IgnoreStatus(xSocket, status) == xSocket = FREERTOS_INVALID_SOCKET

ConnectLoopContinues(xSocket, status) ==
    xSocket = FREERTOS_INVALID_SOCKET /\ status = "RetryUtilsSuccess"

\* One pass of the loop of prvConnectToServerWithBackoffRetries.
ConnectAttempt_NoAssert ==
    /\ pc = "connect"
    /\ \E outcome \in Outcomes :
        LET created == prvCreateTCPConnectionToBroker(outcome)
            failed == created.xMQTTSocket = FREERTOS_INVALID_SOCKET
            backoff == RetryUtils_BackoffAndSleep(attemptsDone, MAX_RETRY_ATTEMPTS)
            status == IF failed THEN backoff.status ELSE xRetryUtilsStatus
            xSocket == IF status = "RetryUtilsRetriesExhausted"
                       THEN FREERTOS_INVALID_SOCKET ELSE created.xMQTTSocket
        IN  /\ connectAttempts' = connectAttempts + 1
            /\ openSockets' = openSockets + (IF created.created THEN 1 ELSE 0)
                                           - (IF created.closed THEN 1 ELSE 0)
            /\ attemptsDone' = (IF failed THEN backoff.attemptsDone ELSE attemptsDone)
            /\ xRetryUtilsStatus' = status
            /\ IF ConnectLoopContinues(xSocket, status)
               THEN /\ Goto(0, "connect")
                    /\ tcp' = tcp
               ELSE IF xSocket = FREERTOS_INVALID_SOCKET
               THEN /\ Goto(0, "mqttConnect")
                    /\ tcp' = tcp
               ELSE /\ Goto(0, "mqttConnect")
                    /\ tcp' = "connected"
    /\ UNCHANGED <<ulPublishCount, xTopicFilterContext, idVars, xFailedSubscribeToTopic,
                   xShutdownLoopCount, sent, xIncomingPacket, subAckLog, connackOK,
                   envVars, xDispatch, xOutbound, xShutdown,
                   pending>>

\* One pass of the loop of prvConnectToServerWithBackoffRetries and, when the
\* loop ends, the assertion of prvMQTTDemoTask on the socket it returns.
ConnectAttempt ==
    /\ pc = "connect"
    /\ \E outcome \in Outcomes :
        LET created == prvCreateTCPConnectionToBroker(outcome)
            failed == created.xMQTTSocket = FREERTOS_INVALID_SOCKET
            backoff == RetryUtils_BackoffAndSleep(attemptsDone, MAX_RETRY_ATTEMPTS)
            status == IF failed THEN backoff.status ELSE xRetryUtilsStatus
            xSocket == IF status = "RetryUtilsRetriesExhausted"
                       THEN FREERTOS_INVALID_SOCKET ELSE created.xMQTTSocket
        IN  /\ connectAttempts' = connectAttempts + 1
            /\ openSockets' = openSockets + (IF created.created THEN 1 ELSE 0)
                                           - (IF created.closed THEN 1 ELSE 0)
            /\ attemptsDone' = (IF failed THEN backoff.attemptsDone ELSE attemptsDone)
            /\ xRetryUtilsStatus' = status
            /\ IF ConnectLoopContinues(xSocket, status)
               THEN /\ Goto(0, "connect")
                    /\ tcp' = tcp
               ELSE IF xSocket = FREERTOS_INVALID_SOCKET
               THEN /\ Goto(415, "fatal")
                    /\ tcp' = tcp
               ELSE /\ Goto(0, "mqttConnect")
                    /\ tcp' = "connected"
    /\ UNCHANGED <<ulPublishCount, xTopicFilterContext, idVars, xFailedSubscribeToTopic,
                   xShutdownLoopCount, sent, xIncomingPacket, subAckLog, connackOK,
                   envVars, xDispatch, xOutbound, xShutdown,
                   pending>>

(***************************************************************************)
(* Session handshake.                                                      *)
(***************************************************************************)
\* prvCreateMQTTConnectionWithBroker: CONNECT is sent and one response is read.
CreateMQTTConnectionWithBroker ==
    /\ pc = "mqttConnect"
    /\ \E xPacketSize \in Sizes, sendResult \in Sends, in \in Incoming :
        LET line == prvCreateMQTTConnectionWithBroker(xPacketSize, sendResult, in)
            connectSent == xPacketSize < mqttexampleSHARED_BUFFER_SIZE /\ sendResult = "all"
        IN  /\ sent' = (IF connectSent THEN Sent("CONNECT", 0) ELSE sent)
            /\ connackOK' = (/\ connectSent
                             /\ in.hdr = "MQTTSuccess"
                             /\ in.type = MQTT_PACKET_TYPE_CONNACK
                             /\ in.recvd = in.remainingLength
                             /\ MQTT_DeserializeAck(in) = "MQTTSuccess")
            /\ xOutbound' = Outbound("CONNECT", xPacketSize, line # 702,
                                     line # 702 /\ sendResult = "all")
            /\ xIncomingPacket' = (IF connectSent THEN in ELSE NoPacket)
            /\ xDispatch' = (IF connectSent
                             THEN Handled(line, line \in {741, 747, 0}, "handshake")
                             ELSE NoDispatch)
            /\ Goto(line, "subscribeEntry")
    /\ UNCHANGED <<tcp, ulPublishCount, xTopicFilterContext, idVars, retryVars,
                   xShutdownLoopCount, subAckLog, envVars, xShutdown,
                   pending, openSockets>>

(***************************************************************************)
(* Subscription with backoff retries.                                      *)
(***************************************************************************)
\* prvMQTTSubscribeWithBackoffRetries before its loop.
SubscribeRetryBegin_NoReset ==
    /\ pc = "subscribeEntry"
    /\ attemptsDone' = attemptsDone
    /\ xRetryUtilsStatus' = "RetryUtilsSuccess"
    /\ xFailedSubscribeToTopic' = FALSE
    /\ Goto(0, "subscribe")
    /\ UNCHANGED <<tcp, ulPublishCount, xTopicFilterContext, idVars, connectAttempts,
                   xShutdownLoopCount, sent, xIncomingPacket, subAckLog, connackOK,
                   envVars, xDispatch, xOutbound, xShutdown,
                   pending, openSockets>>

\* prvMQTTSubscribeWithBackoffRetries, up to its loop.
SubscribeRetryBegin ==
    /\ pc = "subscribeEntry"
    /\ attemptsDone' = 0
    /\ xRetryUtilsStatus' = "RetryUtilsSuccess"
    /\ xFailedSubscribeToTopic' = FALSE
    /\ Goto(0, "subscribe")
    /\ UNCHANGED <<tcp, ulPublishCount, xTopicFilterContext, idVars, connectAttempts,
                   xShutdownLoopCount, sent, xIncomingPacket, subAckLog, connackOK,
                   envVars, xDispatch, xOutbound, xShutdown,
                   pending, openSockets>>

\* prvMQTTSubscribeToTopic and prvMQTTUnsubscribeFromTopic share their shape:
\* size check, identifier, send.  sizeLine, idLine and sendLine are the lines
\* of their three assertions.
RequestLine(xPacketSize, sendResult, id, sizeLine, idLine, sendLine) ==
    IF ~(xPacketSize < mqttexampleSHARED_BUFFER_SIZE) THEN sizeLine
    ELSE IF ~(id # 0) THEN idLine
    ELSE IF sendResult # "all" THEN sendLine
    ELSE 0

\* prvMQTTSubscribeToTopic
SubscribeToTopic ==
    /\ pc = "subscribe"
    /\ CountSent("SUBSCRIBE") < MaxSubscribeSends
    /\ \E xPacketSize \in Sizes, sendResult \in Sends :
        LET id == prvGetNextPacketIdentifier(usPacketId)
            line == RequestLine(xPacketSize, sendResult, id, 785, 790, 807)
        IN  /\ IF line = 785
               THEN UNCHANGED <<usPacketId, usSubscribePacketIdentifier, allocCalled>>
               ELSE /\ usPacketId' = id
                    /\ usSubscribePacketIdentifier' = id
                    /\ allocCalled' = TRUE
            /\ sent' = (IF line = 0 THEN Sent("SUBSCRIBE", id) ELSE sent)
            /\ lastSubscribeSent' = (IF line = 0 THEN id ELSE lastSubscribeSent)
            /\ xOutbound' = Outbound("SUBSCRIBE", xPacketSize, line \notin {785, 790},
                                     line \notin {785, 790} /\ sendResult = "all")
            /\ pending' = (IF line = 0
                           THEN Replied(SubAck(id, [i \in 1..mqttexampleTOPIC_COUNT |-> 0]))
                           ELSE pending)
            /\ Goto(line, "subProcess")
    /\ xIncomingPacket' = NoPacket
    /\ xDispatch' = NoDispatch
    /\ UNCHANGED <<tcp, ulPublishCount, xTopicFilterContext, usUnsubscribePacketIdentifier,
                   lastUnsubscribeSent,
                   retryVars, xShutdownLoopCount, subAckLog, connackOK, envVars,
                   xShutdown,
                   openSockets>>

\* The condition of the do-while loop of prvMQTTSubscribeWithBackoffRetries.
SubscribeLoopContinues(failed, status) == failed = TRUE /\ status = "RetryUtilsSuccess"

\* prvMQTTSubscribeWithBackoffRetries after the dispatcher returned: the scan of
\* the Topic Filter Context, the assertion and the loop condition.
SubscribeRetryCheck ==
    /\ pc = "subCheck"
    /\ LET rejected == \E i \in 1..mqttexampleTOPIC_COUNT : xTopicFilterContext[i] = FALSE
           backoff == RetryUtils_BackoffAndSleep(attemptsDone, MAX_RETRY_ATTEMPTS)
           failed == IF rejected THEN TRUE ELSE xFailedSubscribeToTopic
           status == IF rejected THEN backoff.status ELSE xRetryUtilsStatus
       IN  /\ xFailedSubscribeToTopic' = failed
           /\ xRetryUtilsStatus' = status
           /\ attemptsDone' = (IF rejected THEN backoff.attemptsDone ELSE attemptsDone)
           /\ IF status = "RetryUtilsRetriesExhausted" THEN Goto(861, "fatal")
              ELSE IF SubscribeLoopContinues(failed, status) THEN Goto(0, "subscribe")
              ELSE Goto(0, "publish")
           /\ ulPublishCount' = (IF status = "RetryUtilsSuccess"
                                    /\ ~SubscribeLoopContinues(failed, status)
                                 THEN 0 ELSE ulPublishCount)
    /\ xIncomingPacket' = NoPacket
    /\ xDispatch' = NoDispatch
    /\ UNCHANGED <<tcp, xTopicFilterContext, idVars, connectAttempts, xShutdownLoopCount,
                   sent, subAckLog, connackOK, envVars, xOutbound, xShutdown,
                   pending, openSockets>>

(***************************************************************************)
(* The dispatcher at its four call sites.                                  *)
(***************************************************************************)
DispatchPoints == {"subProcess", "pubProcess", "pingProcess", "unsubProcess"}

\* How a packet consumed in the subscribe episode answers the SUBSCRIBE sent
\* last: a well-formed, wholly read SUBACK carrying its identifier that accepts
\* every filter, one that rejects a filter, or anything else.
SubscribeReply(in) ==
    IF /\ in.hdr = "MQTTSuccess"
       /\ in.type = MQTT_PACKET_TYPE_SUBACK
       /\ in.recvd = in.remainingLength
       /\ in.ok
       /\ in.id = usSubscribePacketIdentifier
       /\ Len(in.statuses) = mqttexampleTOPIC_COUNT
    THEN (IF \E i \in 1..Len(in.statuses) : in.statuses[i] = 128
          THEN "rejected" ELSE "accepted")
    ELSE "other"

\* The condition of the publish and keep-alive loop of prvMQTTDemoTask.
PublishLoopContinues_OneMore(count) == count <= ulMaxPublishCount

PublishLoopContinues(count) == count < ulMaxPublishCount

\* prvMQTTProcessIncomingPacket, and the step of the caller that follows it.
ProcessIncomingPacket ==
    /\ pc \in DispatchPoints
    /\ \E in \in Incoming :
        LET r == prvMQTTProcessIncomingPacket(in, xTopicFilterContext,
                     usSubscribePacketIdentifier, usUnsubscribePacketIdentifier)
            roundsDone == ulPublishCount + 1
        IN  /\ xTopicFilterContext' = r.ctx
            /\ xIncomingPacket' = in
            /\ pending' = Delivered(in)
            /\ xDispatch' = Handled(r.line, r.bodyRead, r.route)
            /\ subAckLog' = (IF pc = "subProcess"
                             THEN Append(subAckLog, SubscribeReply(in)) ELSE subAckLog)
            /\ ulPublishCount' = (IF pc = "pingProcess" /\ r.line = 0
                                  THEN roundsDone ELSE ulPublishCount)
            /\ Goto(r.line,
                    CASE pc = "subProcess" -> "subCheck"
                      [] pc = "pubProcess" -> "keepAlive"
                      [] pc = "pingProcess" ->
                            (IF PublishLoopContinues(roundsDone) THEN "publish"
                             ELSE "unsubscribe")
                      [] pc = "unsubProcess" -> "disconnect")
    /\ xOutbound' = NoOutbound
    /\ UNCHANGED <<tcp, idVars, retryVars, xShutdownLoopCount, sent, connackOK, envVars,
                   xShutdown,
                   openSockets>>

(***************************************************************************)
(* Publish, keep-alive, unsubscribe, disconnect.                           *)
(***************************************************************************)
\* prvMQTTPublishToTopic: the header and the payload are sent separately.
prvMQTTPublishToTopic_NoSizeCheck(xPacketSize, headerResult, payloadResult) ==
    IF headerResult # "all" THEN 946
    ELSE IF payloadResult # "all" THEN 953
    ELSE 0

prvMQTTPublishToTopic(xPacketSize, headerResult, payloadResult) ==
    IF ~(xPacketSize < mqttexampleSHARED_BUFFER_SIZE) THEN 929
    ELSE IF headerResult # "all" THEN 946
    ELSE IF payloadResult # "all" THEN 953
    ELSE 0

PublishToTopic ==
    /\ pc = "publish"
    /\ \E xPacketSize \in Sizes, headerResult \in Sends, payloadResult \in Sends :
        LET line == prvMQTTPublishToTopic(xPacketSize, headerResult, payloadResult)
        IN  /\ sent' = (IF line = 0 THEN Sent("PUBLISH", 0) ELSE sent)
            /\ xOutbound' = Outbound("PUBLISH", xPacketSize, line # 929,
                  line # 929 /\ headerResult = "all" /\ payloadResult = "all")
            /\ pending' = (IF line = 0 THEN Replied(PublishEcho) ELSE pending)
            /\ Goto(line, "pubProcess")
    /\ xIncomingPacket' = NoPacket
    /\ xDispatch' = NoDispatch
    /\ UNCHANGED <<tcp, ulPublishCount, xTopicFilterContext, idVars, retryVars,
                   xShutdownLoopCount, subAckLog, connackOK, envVars, xShutdown,
                   openSockets>>

\* prvMQTTKeepAlive and prvMQTTDisconnect share their shape: size check, send.
FixedPacketLine_SendUnchecked(xPacketSize, sendResult, sizeLine, sendLine) ==
    IF ~(xPacketSize <= mqttexampleSHARED_BUFFER_SIZE) THEN sizeLine
    ELSE 0

FixedPacketLine(xPacketSize, sendResult, sizeLine, sendLine) ==
    IF ~(xPacketSize <= mqttexampleSHARED_BUFFER_SIZE) THEN sizeLine
    ELSE IF sendResult # "all" THEN sendLine
    ELSE 0

\* prvMQTTKeepAlive
KeepAlive ==
    /\ pc = "keepAlive"
    /\ \E xPacketSize \in Sizes, sendResult \in Sends :
        LET line == FixedPacketLine(xPacketSize, sendResult, 1010, 1020)
        IN  /\ sent' = (IF line = 0 THEN Sent("PINGREQ", 0) ELSE sent)
            /\ xOutbound' = Outbound("PINGREQ", xPacketSize, line # 1010,
                                     line # 1010 /\ sendResult = "all")
            /\ pending' = (IF line = 0 THEN Replied(PingResp) ELSE pending)
            /\ Goto(line, "pingProcess")
    /\ xIncomingPacket' = NoPacket
    /\ xDispatch' = NoDispatch
    /\ UNCHANGED <<tcp, ulPublishCount, xTopicFilterContext, idVars, retryVars,
                   xShutdownLoopCount, subAckLog, connackOK, envVars, xShutdown,
                   openSockets>>

\* prvMQTTUnsubscribeFromTopic
UnsubscribeFromTopic ==
    /\ pc = "unsubscribe"
    /\ \E xPacketSize \in Sizes, sendResult \in Sends :
        LET id == prvGetNextPacketIdentifier(usPacketId)
            line == RequestLine(xPacketSize, sendResult, id, 981, 986, 997)
        IN  /\ IF line = 981
               THEN UNCHANGED <<usPacketId, usUnsubscribePacketIdentifier, allocCalled>>
               ELSE /\ usPacketId' = id
                    /\ usUnsubscribePacketIdentifier' = id
                    /\ allocCalled' = TRUE
            /\ sent' = (IF line = 0 THEN Sent("UNSUBSCRIBE", id) ELSE sent)
            /\ lastUnsubscribeSent' = (IF line = 0 THEN id ELSE lastUnsubscribeSent)
            /\ xOutbound' = Outbound("UNSUBSCRIBE", xPacketSize, line \notin {981, 986},
                                     line \notin {981, 986} /\ sendResult = "all")
            /\ pending' = (IF line = 0 THEN Replied(UnsubAck(id)) ELSE pending)
            /\ Goto(line, "unsubProcess")
    /\ xIncomingPacket' = NoPacket
    /\ xDispatch' = NoDispatch
    /\ UNCHANGED <<tcp, ulPublishCount, xTopicFilterContext, usSubscribePacketIdentifier,
                   lastSubscribeSent,
                   retryVars, xShutdownLoopCount, subAckLog, connackOK, envVars,
                   xShutdown,
                   openSockets>>

\* prvMQTTDisconnect and the call that follows it in prvMQTTDemoTask.
Disconnect_ThenDispatch ==
    /\ pc = "disconnect"
    /\ \E xPacketSize \in Sizes, sendResult \in Sends :
        LET line == FixedPacketLine(xPacketSize, sendResult, 1034, 1043)
        IN  /\ sent' = (IF line = 0 THEN Sent("DISCONNECT", 0) ELSE sent)
            /\ xOutbound' = Outbound("DISCONNECT", xPacketSize, line # 1034,
                                     line # 1034 /\ sendResult = "all")
            /\ Goto(line, "unsubProcess")
    /\ xIncomingPacket' = NoPacket
    /\ xDispatch' = NoDispatch
    /\ UNCHANGED <<tcp, ulPublishCount, xTopicFilterContext, idVars, retryVars,
                   xShutdownLoopCount, subAckLog, connackOK, envVars, xShutdown,
                   pending, openSockets>>

\* prvMQTTDisconnect
Disconnect ==
    /\ pc = "disconnect"
    /\ \E xPacketSize \in Sizes, sendResult \in Sends :
        LET line == FixedPacketLine(xPacketSize, sendResult, 1034, 1043)
        IN  /\ sent' = (IF line = 0 THEN Sent("DISCONNECT", 0) ELSE sent)
            /\ xOutbound' = Outbound("DISCONNECT", xPacketSize, line # 1034,
                                     line # 1034 /\ sendResult = "all")
            /\ Goto(line, "shutdown")
    /\ xIncomingPacket' = NoPacket
    /\ xDispatch' = NoDispatch
    /\ UNCHANGED <<tcp, ulPublishCount, xTopicFilterContext, idVars, retryVars,
                   xShutdownLoopCount, subAckLog, connackOK, envVars, xShutdown,
                   pending, openSockets>>

(***************************************************************************)
(* Graceful shutdown and the end of the iteration.                         *)
(***************************************************************************)
\* prvGracefulShutDown up to its loop: FreeRTOS_shutdown.
GracefulShutDownBegin ==
    /\ pc = "shutdown"
    /\ tcp' = "shutdown"
    /\ xShutdownLoopCount' = 0
    /\ xShutdown' = NoShutdown
    /\ xOutbound' = NoOutbound
    /\ Goto(0, "shutdownPoll")
    /\ UNCHANGED <<ulPublishCount, xTopicFilterContext, idVars, retryVars, sent,
                   xIncomingPacket, subAckLog, connackOK, envVars, xDispatch,
                   pending, openSockets>>

\* The loop of prvGracefulShutDown.
GracefulShutDownPoll_OffByOne ==
    /\ pc = "shutdownPoll"
    /\ \E received \in {"bytes", "error"} :
        LET count == xShutdownLoopCount + 1
            polling == received = "bytes" /\ ~(count > mqttexampleMAX_SOCKET_SHUTDOWN_LOOPS)
        IN  /\ xShutdownLoopCount' = (IF received = "bytes" THEN count
                                      ELSE xShutdownLoopCount)
            /\ tcp' = (IF polling THEN tcp ELSE "closed")
            /\ openSockets' = openSockets - (IF polling THEN 0 ELSE 1)
            /\ xShutdown' = [polls |-> xShutdown.polls + 1,
                             closes |-> xShutdown.closes + (IF polling THEN 0 ELSE 1)]
            /\ Goto(0, IF polling THEN "shutdownPoll" ELSE "reset")
    /\ UNCHANGED <<ulPublishCount, xTopicFilterContext, idVars, retryVars, sent,
                   xIncomingPacket, subAckLog, connackOK, envVars, xDispatch, xOutbound,
                   pending>>

\* One FreeRTOS_recv of the loop of prvGracefulShutDown; when the loop ends the
\* socket is closed.
GracefulShutDownPoll ==
    /\ pc = "shutdownPoll"
    /\ \E received \in {"bytes", "error"} :
        LET count == xShutdownLoopCount + 1
            polling == received = "bytes" /\ ~(count >= mqttexampleMAX_SOCKET_SHUTDOWN_LOOPS)
        IN  /\ xShutdownLoopCount' = (IF received = "bytes" THEN count
                                      ELSE xShutdownLoopCount)
            /\ tcp' = (IF polling THEN tcp ELSE "closed")
            /\ openSockets' = openSockets - (IF polling THEN 0 ELSE 1)
            /\ xShutdown' = [polls |-> xShutdown.polls + 1,
                             closes |-> xShutdown.closes + (IF polling THEN 0 ELSE 1)]
            /\ Goto(0, IF polling THEN "shutdownPoll" ELSE "reset")
    /\ UNCHANGED <<ulPublishCount, xTopicFilterContext, idVars, retryVars, sent,
                   xIncomingPacket, subAckLog, connackOK, envVars, xDispatch, xOutbound,
                   pending>>

\* The end of the loop body of prvMQTTDemoTask: the flags are reset.
ResetTopicFilterContext_AlsoCounter ==
    /\ pc = "reset"
    /\ xTopicFilterContext' = [i \in 1..mqttexampleTOPIC_COUNT |-> FALSE]
    /\ usPacketId' = 0
    /\ iteration' = iteration + 1
    /\ Goto(0, "connectEntry")
    /\ UNCHANGED <<tcp, ulPublishCount, usSubscribePacketIdentifier,
                   usUnsubscribePacketIdentifier, allocCalled, lastSubscribeSent,
                   lastUnsubscribeSent, retryVars, xShutdownLoopCount, broker, sent,
                   xIncomingPacket, subAckLog, connackOK, firstSession, trk,
                   xDispatch, xOutbound, xShutdown,
                   pending, openSockets>>

ResetTopicFilterContext_FlagsKept ==
    /\ pc = "reset"
    /\ iteration' = iteration + 1
    /\ Goto(0, "connectEntry")
    /\ UNCHANGED <<tcp, ulPublishCount, xTopicFilterContext, idVars, retryVars,
                   xShutdownLoopCount, broker, sent, xIncomingPacket, subAckLog,
                   connackOK, firstSession, trk,
                   xDispatch, xOutbound, xShutdown,
                   pending, openSockets>>

ResetTopicFilterContext ==
    /\ pc = "reset"
    /\ xTopicFilterContext' = [i \in 1..mqttexampleTOPIC_COUNT |-> FALSE]
    /\ iteration' = iteration + 1
    /\ Goto(0, "connectEntry")
    /\ UNCHANGED <<tcp, ulPublishCount, idVars, retryVars, xShutdownLoopCount, broker,
                   sent, xIncomingPacket, subAckLog, connackOK, firstSession, trk,
                   xDispatch, xOutbound, xShutdown,
                   pending, openSockets>>

Next ==
    \/ ConnectRetryBegin
    \/ ConnectAttempt
    \/ CreateMQTTConnectionWithBroker
    \/ SubscribeRetryBegin
    \/ SubscribeToTopic
    \/ SubscribeRetryCheck
    \/ ProcessIncomingPacket
    \/ PublishToTopic
    \/ KeepAlive
    \/ UnsubscribeFromTopic
    \/ Disconnect
    \/ GracefulShutDownBegin
    \/ GracefulShutDownPoll
    \/ ResetTopicFilterContext

Spec == Init /\ [][Next]_vars

\* The program with a broker and a transport that are well-behaved throughout.
\* The task is the only thread of control and every call it makes returns, so
\* a step that is possible is eventually taken.
InitWellBehaved == Init /\ broker = "wellBehaved"

WellBehavedSpec == InitWellBehaved /\ [][Next]_vars /\ WF_vars(Next)

(***************************************************************************)
(* The subscription tracker on its own: prvMQTTUpdateSubAckStatus applied  *)
(* to a SUBACK with k status bytes over a Topic Filter Context of k        *)
(* filters, for every k up to MaxTopicCount, every content of the flags    *)
(* and every content of the shared buffer behind the packet.               *)
(***************************************************************************)
\* Bytes left in the shared buffer behind the packet by earlier packets.
StaleBytes == {0, 128}

InitTracker ==
    /\ pc = "tracker"
    /\ fatalLine = 0
    /\ tcp = "connected"
    /\ ulPublishCount = 0
    /\ \E k \in 1..MaxTopicCount :
        /\ xTopicFilterContext \in [1..k -> BOOLEAN]
        /\ \E statuses \in [1..k -> StatusBytes], stale \in [1..(k - 1) -> StaleBytes] :
            trk = [pucPayload |-> statuses \o stale, ulSize |-> k, done |-> FALSE,
                   writes |-> {}, reads |-> {}]
    /\ usPacketId = 1
    /\ usSubscribePacketIdentifier = 1
    /\ usUnsubscribePacketIdentifier = 0
    /\ allocCalled = TRUE
    /\ attemptsDone = 0
    /\ xRetryUtilsStatus = "RetryUtilsSuccess"
    /\ xFailedSubscribeToTopic = FALSE
    /\ xShutdownLoopCount = 0
    /\ broker = "arbitrary"
    /\ sent = <<[type |-> "CONNECT", id |-> 0], [type |-> "SUBSCRIBE", id |-> 1]>>
    /\ xIncomingPacket = NoPacket
    /\ iteration = 0
    /\ connectAttempts = 1
    /\ subAckLog = <<>>
    /\ connackOK = TRUE
    /\ lastSubscribeSent = 1
    /\ lastUnsubscribeSent = 0
    /\ firstSession = SessionState
    /\ xDispatch = NoDispatch
    /\ xOutbound = NoOutbound
    /\ xShutdown = NoShutdown
    /\ pending = <<>>
    /\ openSockets = 1

\* prvMQTTUpdateSubAckStatus on the SUBACK of the harness.
UpdateSubAckStatus ==
    /\ pc = "tracker"
    /\ ~trk.done
    /\ xTopicFilterContext' =
           prvMQTTUpdateSubAckStatus(xTopicFilterContext, trk.pucPayload, trk.ulSize)
    /\ trk' = [trk EXCEPT !.done = TRUE,
                          !.writes = TopicFilterContextWritten(trk.ulSize),
                          !.reads = PayloadRead(trk.ulSize)]
    /\ UNCHANGED <<pc, fatalLine, tcp, ulPublishCount, idVars, retryVars,
                   xShutdownLoopCount, broker, sent, xIncomingPacket, iteration,
                   subAckLog, connackOK, firstSession, xDispatch, xOutbound,
                   xShutdown,
                   pending, openSockets>>

NextTracker == UpdateSubAckStatus

SpecTracker == InitTracker /\ [][NextTracker]_vars

\* The subscription tracker over the configured Topic Filter Context
\* (mqttexampleTOPIC_COUNT filters), applied to a SUBACK with any number of
\* status bytes up to MaxTopicCount.
InitTrackerBounds ==
    /\ pc = "tracker"
    /\ fatalLine = 0
    /\ tcp = "connected"
    /\ ulPublishCount = 0
    /\ xTopicFilterContext \in [1..mqttexampleTOPIC_COUNT -> BOOLEAN]
    /\ \E k \in 1..MaxTopicCount :
        /\ \E statuses \in [1..k -> StatusBytes], stale \in [1..(k - 1) -> StaleBytes] :
            trk = [pucPayload |-> statuses \o stale, ulSize |-> k, done |-> FALSE,
                   writes |-> {}, reads |-> {}]
    /\ usPacketId = 1
    /\ usSubscribePacketIdentifier = 1
    /\ usUnsubscribePacketIdentifier = 0
    /\ allocCalled = TRUE
    /\ attemptsDone = 0
    /\ xRetryUtilsStatus = "RetryUtilsSuccess"
    /\ xFailedSubscribeToTopic = FALSE
    /\ xShutdownLoopCount = 0
    /\ broker = "arbitrary"
    /\ sent = <<[type |-> "CONNECT", id |-> 0], [type |-> "SUBSCRIBE", id |-> 1]>>
    /\ xIncomingPacket = NoPacket
    /\ iteration = 0
    /\ connectAttempts = 1
    /\ subAckLog = <<>>
    /\ connackOK = TRUE
    /\ lastSubscribeSent = 1
    /\ lastUnsubscribeSent = 0
    /\ firstSession = SessionState
    /\ xDispatch = NoDispatch
    /\ xOutbound = NoOutbound
    /\ xShutdown = NoShutdown
    /\ pending = <<>>
    /\ openSockets = 1

SpecTrackerBounds == InitTrackerBounds /\ [][NextTracker]_vars

(***************************************************************************)
(* Properties.                                                             *)
(***************************************************************************)
\* The 16-bit successor that skips 0.
Successor16(id) == IF id = UINT16_MAX THEN 1 ELSE id + 1

Requests == {"SUBSCRIBE", "UNSUBSCRIBE"}

\* C1: no value returned by prvGetNextPacketIdentifier is 0, and no SUBSCRIBE
\* or UNSUBSCRIBE that was sent carries the identifier 0.
C1_IdentifierNeverZero ==
    /\ allocCalled => usPacketId # 0
    /\ \A i \in 1..Len(sent) : sent[i].type \in Requests => sent[i].id # 0

\* C1 witness: the counter has wrapped: a SUBSCRIBE went out with 65535 and the
\* UNSUBSCRIBE after it with 1.
C1_Witness ==
    /\ \E i \in 1..Len(sent) : sent[i] = [type |-> "SUBSCRIBE", id |-> UINT16_MAX]
    /\ \E i \in 1..Len(sent) : sent[i] = [type |-> "UNSUBSCRIBE", id |-> 1]

\* C2: every call of prvGetNextPacketIdentifier returns the 16-bit successor of
\* the value issued before it (1 first, and 1 after 65535), every SUBSCRIBE and
\* UNSUBSCRIBE sent carries the value so returned, and no other step, the end
\* of a session iteration included, changes the counter.
C2_SuccessorAcrossIterations ==
    [][/\ usPacketId' # usPacketId => usPacketId' = Successor16(usPacketId)
       /\ (~allocCalled /\ allocCalled') => usPacketId' = 1
       /\ (Len(sent') = Len(sent) + 1 /\ sent'[Len(sent')].type \in Requests)
            => /\ sent'[Len(sent')].id = Successor16(usPacketId)
               /\ usPacketId' = Successor16(usPacketId)
       /\ iteration' # iteration => usPacketId' = usPacketId]_vars

\* C2 witness: the SUBSCRIBE of the second iteration carries 3, after 1 and 2
\* were issued in the first.
C2_Witness ==
    /\ iteration = 1
    /\ firstSession.unsubscribeId = 0
    /\ \E i \in 1..Len(sent) : sent[i] = [type |-> "SUBSCRIBE", id |-> 3]

\* C3: when the broker rejects the first SUBSCRIBE of an episode (SUBACK status
\* 0x80) and accepts the second (status 0x00), the episode goes on after the
\* rejection, sends exactly 2 SUBSCRIBE packets and ends with the task in the
\* publish phase.
C3_RejectThenAccept ==
    /\ subAckLog = <<"rejected">> => (pc # "fatal" /\ CountSent("SUBSCRIBE") <= 2)
    /\ subAckLog = <<"rejected", "accepted">> =>
          /\ pc \in {"subCheck", "publish"}
          /\ CountSent("SUBSCRIBE") = 2

\* C4: after prvMQTTUpdateSubAckStatus has processed k status bytes over a
\* context of k filters, flag i is false exactly when status byte i has bit
\* 0x80 set.
C4_FlagsFollowStatusBytes ==
    trk.done =>
        \A i \in 1..trk.ulSize :
            xTopicFilterContext[i] = ~TopBitSet(trk.pucPayload[i])

C6_WellBehavedCompletes ==
    /\ [](broker = "wellBehaved" => pc # "fatal")
    /\ (broker = "wellBehaved") ~>
          (iteration >= 1 /\ pc = "connectEntry" /\ xTopicFilterContext = AllFlags(FALSE))

\* C6 witness: a well-behaved broker's iteration has completed.
C6_Witness ==
    /\ broker = "wellBehaved"
    /\ iteration >= 1
    /\ pc = "connectEntry"
    /\ Len(sent) > 0

\* C7 as claimed: at the start of every iteration the session state equals that
\* of the start of the first iteration.
C7_SessionStateAsAtFirst ==
    pc = "connectEntry" => SessionState = firstSession

\* C7 amended: at the start of every iteration the flags, the retry state and
\* the connection are as at the start of the first; the outstanding identifiers
\* are those of the SUBSCRIBE and UNSUBSCRIBE sent last in the iteration before.
C7_FlagsRetryAndSocketAsAtFirst ==
    pc = "connectEntry" =>
        /\ xTopicFilterContext = firstSession.flags
        /\ attemptsDone = firstSession.attemptsDone
        /\ xRetryUtilsStatus = firstSession.retryStatus
        /\ xFailedSubscribeToTopic = firstSession.failedSubscribe
        /\ tcp = firstSession.tcp
        /\ iteration >= 1 =>
              /\ \E i \in 1..Len(sent) :
                    sent[i] = [type |-> "SUBSCRIBE", id |-> usSubscribePacketIdentifier]
              /\ sent[Len(sent) - 1] =
                    [type |-> "UNSUBSCRIBE", id |-> usUnsubscribePacketIdentifier]
              /\ usUnsubscribePacketIdentifier = usPacketId
              /\ usSubscribePacketIdentifier # firstSession.subscribeId
              /\ usUnsubscribePacketIdentifier # firstSession.unsubscribeId

\* C7 witness: the second iteration is about to start.
C7_Witness ==
    /\ pc = "connectEntry"
    /\ iteration = 1
    /\ broker = "arbitrary"

\* The packets of a completed iteration: CONNECT, k >= 1 SUBSCRIBE, five rounds
\* of PUBLISH then PINGREQ, UNSUBSCRIBE, DISCONNECT.
CompleteOrder(types) ==
    LET k == Len(types) - (2 * ulMaxPublishCount + 3)
    IN  /\ k >= 1
        /\ types[1] = "CONNECT"
        /\ \A i \in 2..(k + 1) : types[i] = "SUBSCRIBE"
        /\ \A r \in 0..(ulMaxPublishCount - 1) :
              /\ types[k + 2 + 2 * r] = "PUBLISH"
              /\ types[k + 3 + 2 * r] = "PINGREQ"
        /\ types[Len(types) - 1] = "UNSUBSCRIBE"
        /\ types[Len(types)] = "DISCONNECT"

\* C8: when an iteration completes, the packets sent on its connection are, in
\* order, one CONNECT, one or more SUBSCRIBE, 5 rounds of PUBLISH then PINGREQ,
\* one UNSUBSCRIBE and one DISCONNECT, and the socket has been shut down and
\* closed after them.
C8_PacketOrder ==
    /\ pc = "reset" =>
          /\ CompleteOrder([i \in 1..Len(sent) |-> sent[i].type])
          /\ tcp = "closed"
    /\ pc \in {"shutdown", "shutdownPoll"} =>
          /\ CompleteOrder([i \in 1..Len(sent) |-> sent[i].type])
          /\ tcp # "closed"
    /\ tcp # "connected" => pc \notin
          {"mqttConnect", "subscribeEntry", "subscribe", "subProcess", "subCheck",
           "publish", "pubProcess", "keepAlive", "pingProcess", "unsubscribe",
           "unsubProcess", "disconnect"}

\* C8 witness: an iteration has completed on a socket that was closed.
C8_Witness ==
    /\ pc = "reset"
    /\ tcp = "closed"
    /\ xShutdownLoopCount = mqttexampleMAX_SOCKET_SHUTDOWN_LOOPS

\* C9: the task gets past the handshake only when the response read after
\* CONNECT is a CONNACK that deserializes successfully, so a SUBSCRIBE is sent
\* only on a connection that has received one.
C9_ConnackBeforeSubscribe ==
    /\ pc \notin {"connectEntry", "connect", "mqttConnect", "fatal"} => connackOK
    /\ (pc = "fatal" /\ fatalLine > 753) => connackOK
    /\ CountSent("SUBSCRIBE") > 0 => connackOK

\* C9 witness: a SUBSCRIBE has been sent after a successful CONNACK.
C9_Witness ==
    /\ pc = "subProcess"
    /\ CountSent("SUBSCRIBE") = 1
    /\ connackOK

\* C10: a SUBACK that the dispatcher processed without a fatal condition carries
\* the identifier of the SUBSCRIBE sent last, and an UNSUBACK so processed that
\* of the UNSUBSCRIBE sent last.
C10_AckIdentifierMatches ==
    (pc # "fatal" /\ xIncomingPacket.hdr = "MQTTSuccess") =>
        /\ xIncomingPacket.type = MQTT_PACKET_TYPE_SUBACK =>
              (xIncomingPacket.id = lastSubscribeSent /\ lastSubscribeSent # 0)
        /\ xIncomingPacket.type = MQTT_PACKET_TYPE_UNSUBACK =>
              (xIncomingPacket.id = lastUnsubscribeSent /\ lastUnsubscribeSent # 0)

\* C10 witness: the UNSUBACK of the UNSUBSCRIBE has been processed.
C10_Witness ==
    /\ pc = "disconnect"
    /\ xIncomingPacket.type = MQTT_PACKET_TYPE_UNSUBACK
    /\ xIncomingPacket.id = lastUnsubscribeSent

\* The steps of the dispatcher: prvMQTTProcessIncomingPacket is called at the
\* four dispatch points, and the packet it read is in xIncomingPacket after.
PublishNibble(type) == type \div 16 = MQTT_PACKET_TYPE_PUBLISH \div 16

\* C11: a dispatcher step on a packet whose type has the high nibble of PUBLISH
\* reaches no identifier check (it never gets to prvMQTTProcessResponse and
\* never halts on lines 1070 or 1076) and leaves the Topic Filter Context flags
\* and the outstanding subscribe and unsubscribe identifiers as they were,
\* whatever identifier and body the packet carries.
C11_PublishNeverIdentifierChecked ==
    [][(/\ pc \in DispatchPoints
        /\ xIncomingPacket'.hdr = "MQTTSuccess"
        /\ PublishNibble(xIncomingPacket'.type))
          => /\ xDispatch'.route \in {"header", "publish"}
             /\ xDispatch'.line \notin {1070, 1076}
             /\ fatalLine' \in {0, 1148, 1160, 1168}
             /\ xTopicFilterContext' = xTopicFilterContext
             /\ usSubscribePacketIdentifier' = usSubscribePacketIdentifier
             /\ usUnsubscribePacketIdentifier' = usUnsubscribePacketIdentifier]_vars

\* C11 witness: a packet of type PUBLISH with a flag bit set, carrying an
\* identifier that matches neither outstanding one, was handled as a publish
\* while the subscription flags were set.
C11_Witness ==
    /\ pc = "keepAlive"
    /\ xIncomingPacket.type = MQTT_PACKET_TYPE_PUBLISH + 1
    /\ xIncomingPacket.id \notin {usSubscribePacketIdentifier, usUnsubscribePacketIdentifier}
    /\ xDispatch.route = "publish"
    /\ xTopicFilterContext = AllFlags(TRUE)

\* C12: a PINGRESP with remaining length 0 is never read from the transport
\* beyond its header, and once MQTT_DeserializeAck has accepted it it reaches
\* prvMQTTProcessResponse and passes without any assertion failing, whatever
\* the outstanding subscribe and unsubscribe identifiers are.
C12_PingRespNoBodyNoCheck ==
    (/\ xDispatch.route \notin {"none", "handshake"}
     /\ xIncomingPacket.hdr = "MQTTSuccess"
     /\ xIncomingPacket.type = MQTT_PACKET_TYPE_PINGRESP
     /\ xIncomingPacket.remainingLength = 0)
       => /\ ~xDispatch.bodyRead
          /\ xDispatch.line \in {0, 1181}
          /\ MQTT_DeserializeAck(xIncomingPacket) = "MQTTSuccess"
                => /\ xDispatch.route = "response"
                   /\ xDispatch.line = 0
                   /\ pc # "fatal"

\* C12 witness: a PINGRESP was handled while a SUBSCRIBE and an UNSUBSCRIBE
\* with non-zero identifiers were outstanding.
C12_Witness ==
    /\ xIncomingPacket.type = MQTT_PACKET_TYPE_PINGRESP
    /\ xDispatch.route = "response"
    /\ pc = "disconnect"
    /\ usSubscribePacketIdentifier # 0
    /\ usUnsubscribePacketIdentifier # 0

\* C13: a dispatcher step whose header read reports that no data is available
\* returns without a fatal condition, reads no body, and leaves the Topic
\* Filter Context flags, the outstanding identifiers and the packet-identifier
\* counter as they were.
C13_NoDataLeavesStateAlone ==
    [][(pc \in DispatchPoints /\ xIncomingPacket' = NoData)
          => /\ pc' # "fatal"
             /\ fatalLine' = 0
             /\ xDispatch' = Handled(0, FALSE, "returned")
             /\ xTopicFilterContext' = xTopicFilterContext
             /\ usSubscribePacketIdentifier' = usSubscribePacketIdentifier
             /\ usUnsubscribePacketIdentifier' = usUnsubscribePacketIdentifier
             /\ usPacketId' = usPacketId]_vars

\* C13 witness: the dispatcher found no data after a PUBLISH and the task went
\* on to the keep-alive.
C13_Witness ==
    /\ pc = "keepAlive"
    /\ xIncomingPacket = NoData
    /\ xDispatch.route = "returned"

\* C14: a subscribe-retry episode leaves its loop for the publish phase only
\* with every flag true, and once a SUBACK carrying the identifier of the
\* SUBSCRIBE sent last has accepted every filter, the episode sends no further
\* SUBSCRIBE: the loop ends there.
C14_EpisodeEndsOnAcceptance ==
    /\ pc = "publish" /\ ulPublishCount = 0 => xTopicFilterContext = AllFlags(TRUE)
    /\ \A j \in 1..Len(subAckLog) :
          subAckLog[j] = "accepted" => (CountSent("SUBSCRIBE") = j /\ pc # "subscribe")

\* C15: a connect-retry episode makes at most MAX_RETRY_ATTEMPTS attempts and
\* ends either with a connected socket, on which CONNECT is then sent, or with
\* retries exhausted and the invalid socket, which halts the task on line 415
\* before anything is sent; CONNECT is only ever sent on a connected socket.
C15_ConnectEpisodeEnds ==
    /\ connectAttempts <= MAX_RETRY_ATTEMPTS
    /\ pc = "connect" => connectAttempts < MAX_RETRY_ATTEMPTS
    /\ pc = "mqttConnect" =>
          (tcp = "connected" /\ xRetryUtilsStatus = "RetryUtilsSuccess" /\ sent = <<>>)
    /\ (pc = "fatal" /\ fatalLine = 415) =>
          /\ xRetryUtilsStatus = "RetryUtilsRetriesExhausted"
          /\ tcp # "connected"
          /\ sent = <<>>
    /\ xOutbound.type = "CONNECT" => tcp = "connected"

\* C15 witness: the episode connected at its last attempt, after
\* MAX_RETRY_ATTEMPTS - 1 failures.
C15_Witness ==
    /\ pc = "mqttConnect"
    /\ tcp = "connected"
    /\ connectAttempts = MAX_RETRY_ATTEMPTS
    /\ attemptsDone = MAX_RETRY_ATTEMPTS - 1

\* C16: prvGracefulShutDown calls FreeRTOS_recv at most
\* mqttexampleMAX_SOCKET_SHUTDOWN_LOOPS times, stops at the first call that
\* reports an error, then closes the socket exactly once, and never halts the
\* task: when the bound is used up the socket is closed all the same.
C16_ShutdownBoundedAndCloses ==
    /\ [](pc = "shutdownPoll" =>
            /\ xShutdown.closes = 0
            /\ xShutdown.polls = xShutdownLoopCount
            /\ xShutdown.polls < mqttexampleMAX_SOCKET_SHUTDOWN_LOOPS
            /\ tcp = "shutdown")
    /\ [](pc = "reset" =>
            /\ xShutdown.closes = 1
            /\ tcp = "closed"
            /\ xShutdown.polls \in 1..mqttexampleMAX_SOCKET_SHUTDOWN_LOOPS
            /\ \/ xShutdown.polls = xShutdownLoopCount + 1
               \/ /\ xShutdown.polls = xShutdownLoopCount
                  /\ xShutdownLoopCount = mqttexampleMAX_SOCKET_SHUTDOWN_LOOPS)
    /\ [][(pc \in {"shutdown", "shutdownPoll"}) => (pc' \in {"shutdownPoll", "reset"})]_vars

\* C16 witness: every poll returned data, the bound was used up and the socket
\* was closed once without a fatal condition.
C16_Witness ==
    /\ pc = "reset"
    /\ xShutdown = [polls |-> mqttexampleMAX_SOCKET_SHUTDOWN_LOOPS, closes |-> 1]
    /\ xShutdownLoopCount = mqttexampleMAX_SOCKET_SHUTDOWN_LOOPS

\* C17: every flag is false from process start up to the first SUBSCRIBE of
\* each iteration: false initially, and false again once an iteration has
\* ended, so that each subscribe-retry episode begins with all flags false.
C17_FlagsFalseBeforeSubscribe ==
    /\ pc \in {"connectEntry", "connect", "mqttConnect", "subscribeEntry"}
          => xTopicFilterContext = AllFlags(FALSE)
    /\ (pc = "subscribe" /\ CountSent("SUBSCRIBE") = 0)
          => xTopicFilterContext = AllFlags(FALSE)

\* C17 witness: the subscribe-retry episode of the second iteration is about
\* to send its first SUBSCRIBE.
C17_Witness ==
    /\ pc = "subscribe"
    /\ iteration = 1
    /\ CountSent("SUBSCRIBE") = 0

\* C18: a packet of a type other than PUBLISH, SUBACK, UNSUBACK and PINGRESP
\* (a CONNACK or a PUBACK) that the dispatcher reads halts the task.
C18_OtherTypesFatal ==
    (/\ xDispatch.route \in {"header", "publish", "ack", "response"}
     /\ xIncomingPacket.hdr = "MQTTSuccess"
     /\ xIncomingPacket.type \in {MQTT_PACKET_TYPE_CONNACK, MQTT_PACKET_TYPE_PUBACK})
       => pc = "fatal"

\* C19: in the handshake and in the dispatcher a header whose remaining length
\* exceeds mqttexampleSHARED_BUFFER_SIZE halts the task before the body is
\* read, so every body that is read fits the shared buffer.
C19_BodyFitsSharedBuffer ==
    /\ (/\ xDispatch.route # "none"
        /\ xIncomingPacket.hdr = "MQTTSuccess"
        /\ xIncomingPacket.remainingLength > mqttexampleSHARED_BUFFER_SIZE)
          => /\ pc = "fatal"
             /\ fatalLine \in {733, 734, 1148}
             /\ ~xDispatch.bodyRead
    /\ xDispatch.bodyRead => xIncomingPacket.remainingLength <= mqttexampleSHARED_BUFFER_SIZE

\* C19 witness: the dispatcher halted on a header announcing one byte more
\* than the shared buffer holds.
C19_Witness ==
    /\ pc = "fatal"
    /\ fatalLine = 1148
    /\ xIncomingPacket.remainingLength = mqttexampleSHARED_BUFFER_SIZE + 1
    /\ ~xDispatch.bodyRead

\* C20: an outbound packet whose encoded size exceeds the capacity of the
\* shared buffer halts the task on the size assertion of its function and is
\* neither serialized nor sent; whatever is serialized fits the buffer, and
\* only what was serialized is sent.
C20_OutboundSizeChecked ==
    xOutbound.type # "none" =>
        /\ xOutbound.size > mqttexampleSHARED_BUFFER_SIZE =>
              /\ pc = "fatal"
              /\ fatalLine \in {702, 785, 929, 981, 1010, 1034}
              /\ ~xOutbound.serialized
              /\ ~xOutbound.sent
        /\ xOutbound.serialized => xOutbound.size <= mqttexampleSHARED_BUFFER_SIZE
        /\ xOutbound.sent => xOutbound.serialized

\* C20 witness: a PUBLISH one byte larger than the shared buffer halted the
\* task before it was serialized.
C20_Witness ==
    /\ pc = "fatal"
    /\ fatalLine = 929
    /\ xOutbound = Outbound("PUBLISH", mqttexampleSHARED_BUFFER_SIZE + 1, FALSE, FALSE)

\* C21: requests and replies go in lock-step: at no time is more than one
\* reply of the broker in flight, so when a request is sent the replies to all
\* earlier requests have been read.
C21_LockStep ==
    broker = "delayed" => Len(pending) <= 1

\* The packet the dispatcher read last in the subscribe-retry episode is a
\* SUBACK of the given kind ("accepted" or "rejected") for the SUBSCRIBE sent
\* last.
LastSubAck(kind) ==
    /\ xDispatch.route \in {"header", "publish", "ack", "response"}
    /\ subAckLog # <<>>
    /\ subAckLog[Len(subAckLog)] = kind
    /\ SubscribeReply(xIncomingPacket) = kind
    /\ CountSent("PUBLISH") = 0

\* C22: a SUBACK with the matching identifier and a rejection status is not
\* fatal in the dispatcher: the flag of the rejected filter is set false,
\* prvMQTTProcessResponse runs and the task is back in the retry loop.
C22_RejectionNotFatal ==
    LastSubAck("rejected") =>
        /\ pc = "subCheck"
        /\ fatalLine = 0
        /\ xDispatch.route = "response"
        /\ \A i \in 1..mqttexampleTOPIC_COUNT :
              xTopicFilterContext[i] = ~TopBitSet(xIncomingPacket.statuses[i])

\* C23: with a broker that answers every SUBSCRIBE with an accepting SUBACK,
\* which may arrive after a PUBLISH or after the dispatcher found no data, the
\* SUBACK never halts the task, and once every filter is acknowledged the
\* episode ends: the loop does not send another SUBSCRIBE.
C23_LateSubAckTolerated ==
    broker = "delayed" =>
        /\ ~(pc = "fatal" /\ xIncomingPacket.type = MQTT_PACKET_TYPE_SUBACK)
        /\ pc = "subscribe" => xTopicFilterContext # AllFlags(TRUE)

\* C24: when every SUBSCRIBE of an episode is rejected, at most
\* MAX_RETRY_ATTEMPTS SUBSCRIBE packets are sent, the episode halts on the
\* retries-exhausted assertion (line 861) and on nothing else, and no PUBLISH,
\* PINGREQ or UNSUBSCRIBE is sent on the connection.
C24_AllRejectedExhausts ==
    (subAckLog # <<>> /\ \A j \in 1..Len(subAckLog) : subAckLog[j] = "rejected") =>
        /\ CountSent("SUBSCRIBE") <= MAX_RETRY_ATTEMPTS
        /\ \A i \in 1..Len(sent) : sent[i].type \in {"CONNECT", "SUBSCRIBE"}
        /\ pc = "fatal" =>
              /\ fatalLine = 861
              /\ xRetryUtilsStatus = "RetryUtilsRetriesExhausted"

\* C25: when a SUBACK halts the task on the identifier check of line 1070, the
\* flags have already been set from its status bytes.
C25_TrackerBeforeIdentifierCheck ==
    (pc = "fatal" /\ fatalLine = 1070) =>
        /\ xIncomingPacket.type = MQTT_PACKET_TYPE_SUBACK
        /\ xIncomingPacket.id # usSubscribePacketIdentifier
        /\ \A i \in 1..mqttexampleTOPIC_COUNT :
              xTopicFilterContext[i] = ~TopBitSet(xIncomingPacket.statuses[i])

\* C25 witness: the first SUBACK of an episode, read while the flag was still
\* false, failed the identifier check and left the flag true.
C25_Witness ==
    /\ pc = "fatal"
    /\ fatalLine = 1070
    /\ subAckLog = <<"other">>
    /\ xTopicFilterContext = AllFlags(TRUE)

\* C26: a dispatcher step whose body read returns another count than the
\* remaining length (fewer bytes or an error) halts the task on line 1160: the
\* packet is not decoded, no identifier is checked and the flags stay as they
\* were.
C26_ShortBodyReadFatal ==
    [][(/\ pc \in DispatchPoints
        /\ xIncomingPacket'.hdr = "MQTTSuccess"
        /\ xIncomingPacket'.remainingLength > 0
        /\ xIncomingPacket'.remainingLength <= mqttexampleSHARED_BUFFER_SIZE
        /\ xIncomingPacket'.recvd # xIncomingPacket'.remainingLength)
          => /\ pc' = "fatal"
             /\ fatalLine' = 1160
             /\ xDispatch' = Handled(1160, TRUE, "header")
             /\ xTopicFilterContext' = xTopicFilterContext
             /\ usSubscribePacketIdentifier' = usSubscribePacketIdentifier
             /\ usUnsubscribePacketIdentifier' = usUnsubscribePacketIdentifier]_vars

\* C26 witness: an accepting SUBACK with the matching identifier lost its last
\* byte in the body read, and the flag is still false.
C26_Witness ==
    /\ pc = "fatal"
    /\ fatalLine = 1160
    /\ xIncomingPacket.type = MQTT_PACKET_TYPE_SUBACK
    /\ xIncomingPacket.id = usSubscribePacketIdentifier
    /\ xIncomingPacket.statuses = <<0>>
    /\ xIncomingPacket.recvd = xIncomingPacket.remainingLength - 1
    /\ xTopicFilterContext = AllFlags(FALSE)

\* C27: a packet that was serialized but that FreeRTOS_send did not take
\* whole halts the task on the assertion that follows the send, and no response
\* is read after it.
C27_SendFailureFatal ==
    (xOutbound.type # "none" /\ xOutbound.serialized /\ ~xOutbound.sent) =>
        /\ pc = "fatal"
        /\ fatalLine \in {715, 807, 946, 953, 997, 1020, 1043}
        /\ xIncomingPacket = NoPacket
        /\ xDispatch = NoDispatch

\* C27 witness: the payload of a PUBLISH was cut short after its header had
\* been sent.
C27_Witness ==
    /\ pc = "fatal"
    /\ fatalLine = 953
    /\ xOutbound = Outbound("PUBLISH", 2, TRUE, FALSE)

\* C28: prvMQTTUpdateSubAckStatus writes only entries of xTopicFilterContext
\* with an index below mqttexampleTOPIC_COUNT and reads only bytes of the
\* payload at offsets below remainingLength - 2, whatever the number of status
\* bytes of the SUBACK is.
C28_TrackerStaysInBounds ==
    trk.done =>
        /\ \A w \in trk.writes : w < mqttexampleTOPIC_COUNT
        /\ \A r \in trk.reads : r < trk.ulSize

\* C29: the attempts counted by a retry episode are those of that episode
\* alone: a connect-retry episode and a subscribe-retry episode each begin with
\* no attempt counted and the retry status reset, whatever the connect episode
\* of the same iteration and the episodes of earlier iterations used up.
C29_RetryStatePerEpisode ==
    /\ pc = "connect" => attemptsDone = connectAttempts
    /\ (pc = "connect" /\ connectAttempts = 0) => xRetryUtilsStatus = "RetryUtilsSuccess"
    /\ (pc = "subscribe" /\ CountSent("SUBSCRIBE") = 0) =>
          /\ attemptsDone = 0
          /\ xRetryUtilsStatus = "RetryUtilsSuccess"
          /\ xFailedSubscribeToTopic = FALSE
    /\ pc \in {"subscribe", "subProcess", "subCheck"} =>
          attemptsDone <= CountSent("SUBSCRIBE")

\* C29 witness: the subscribe-retry episode of the second iteration begins
\* with no attempt counted, after a connect-retry episode that used up all
\* failures but the last.
C29_Witness ==
    /\ pc = "subscribe"
    /\ iteration = 1
    /\ CountSent("SUBSCRIBE") = 0
    /\ connectAttempts = MAX_RETRY_ATTEMPTS
    /\ attemptsDone = 0

\* C30: at most one socket is open at any time: none while a connect-retry
\* episode is between attempts or an iteration is about to begin, and exactly
\* one, the socket of the session, from the successful connection to the close
\* of prvGracefulShutDown.
C30_AtMostOneSocket ==
    /\ openSockets \in {0, 1}
    /\ pc \in {"connectEntry", "connect", "reset"} => openSockets = 0
    /\ openSockets = 1 <=> tcp \in {"connected", "shutdown"}

\* C30 witness: the session of the second iteration holds the only open
\* socket, after attempts whose sockets were created and closed again.
C30_Witness ==
    /\ pc = "mqttConnect"
    /\ iteration = 1
    /\ connectAttempts = MAX_RETRY_ATTEMPTS
    /\ openSockets = 1

\* The connection has sent its DISCONNECT.
DisconnectSent == sent # <<>> /\ sent[Len(sent)].type = "DISCONNECT"

\* C31: DISCONNECT is the last MQTT packet of its connection: once it is sent
\* no packet is sent or offered for sending and no packet is dispatched until
\* the next connection begins, and while the socket is closed nothing is sent
\* and nothing is received, the polling reads of the shutdown included.
C31_DisconnectIsLast ==
    [][/\ DisconnectSent =>
            /\ sent' \in {sent, <<>>}
            /\ xOutbound' \in {xOutbound, NoOutbound}
            /\ xDispatch' = NoDispatch
            /\ xIncomingPacket' = NoPacket
       /\ (tcp = "closed") =>
            /\ sent' \in {sent, <<>>}
            /\ xOutbound' \in {xOutbound, NoOutbound}
            /\ xDispatch' \in {xDispatch, NoDispatch}
            /\ xIncomingPacket' \in {xIncomingPacket, NoPacket}
            /\ xShutdown' \in {xShutdown, NoShutdown}]_vars

\* C31 witness: the socket was polled and closed after the DISCONNECT, which
\* is still the last packet of the connection.
C31_Witness ==
    /\ pc = "reset"
    /\ tcp = "closed"
    /\ DisconnectSent
    /\ xShutdown.polls >= 1
    /\ xDispatch = NoDispatch

\* C32: when the task is about to send DISCONNECT, the packet the dispatcher
\* processed after the UNSUBSCRIBE of the iteration was an UNSUBACK carrying
\* the identifier of that UNSUBSCRIBE.
C32_UnsubAckBeforeDisconnect ==
    pc = "disconnect" =>
        /\ xIncomingPacket.hdr = "MQTTSuccess"
        /\ xIncomingPacket.type = MQTT_PACKET_TYPE_UNSUBACK
        /\ xIncomingPacket.id = lastUnsubscribeSent

\* C33: an outbound packet whose encoded size equals the capacity of the
\* shared buffer passes the size check of its function and is serialized,
\* whatever its type.
C33_BoundaryAccepted ==
    (xOutbound.type # "none" /\ xOutbound.size = mqttexampleSHARED_BUFFER_SIZE) =>
        /\ xOutbound.serialized
        /\ ~(pc = "fatal" /\ fatalLine \in {702, 785, 929, 981, 1010, 1034})

=============================================================================
